---- MODULE Spec2Model ----
(***************************************************************************)
(* Model of lsst.obs.base: the ExposureIdInfo value object                 *)
(* (python/lsst/obs/base/exposureIdInfo.py) and the IRAF bounding-box      *)
(* parser bboxFromIraf (python/lsst/obs/base/utils.py).                    *)
(*                                                                         *)
(* Python values handed to the constructor are modelled as records:        *)
(*   [kind |-> "int",   val |-> n]      the int n                          *)
(*   [kind |-> "float", halves |-> h]   the float h/2 (h odd: n + 0.5)     *)
(*   None                               the Python None                    *)
(* Strings are sequences of one-character strings.                         *)
(***************************************************************************)
EXTENDS Integers, Sequences, FiniteSets, TLC

VARIABLES
    pc,         \* position of the caller: "start", "constructed", "raised", "read", "parsed"
    argExpId,   \* the expId argument of ExposureIdInfo(...)
    argExpBits, \* the expBits argument
    argMaxBits, \* the maxBits argument (None when omitted)
    self,       \* attributes of the ExposureIdInfo under construction / constructed
    instance,   \* TRUE when the constructor returned an instance to the caller
    err,        \* exception raised by the last call ("none" when it returned)
    ret,        \* value returned by the last unusedBits read / bboxFromIraf call
    calls,      \* calls made to IdFactory.computeReservedFromMaxBits: <<arg, result>>
    irafBBoxStr \* the argument of bboxFromIraf

vars == <<pc, argExpId, argExpBits, argMaxBits, self, instance, err, ret, calls, irafBBoxStr>>

-----------------------------------------------------------------------------
(* Bounds *)

MaxId == 16          \* |expId| arguments range over -MaxId..MaxId
MaxBits == 4         \* expBits arguments range over -1..MaxBits, maxBits over -1..MaxBits+1
MaxReserved == 2     \* the external capability answers a value in -1..MaxReserved
MaxReads == 2        \* number of unusedBits reads of one instance
MaxFieldLen == 2     \* length of each of the four fields of an IRAF string

-----------------------------------------------------------------------------
(* Python values *)

None == [kind |-> "None"]
Unset == [kind |-> "unset"]

PyInt(n) == [kind |-> "int", val |-> n]

PyFloat(h) == [kind |-> "float", halves |-> h]

\* the ints lo..hi and the floats n + 0.5 between them
PyNumbers(lo, hi) ==
    {PyInt(n) : n \in lo..hi} \cup {PyFloat(2 * n + 1) : n \in lo..(hi - 1)}

IsInt(v) == v.kind = "int"

\* int(v): an int is returned as is, a float is truncated toward zero
int(v) ==
    IF v.kind = "int" THEN v.val
    ELSE IF v.halves >= 0 THEN v.halves \div 2
    ELSE -((-v.halves) \div 2)

Abs(n) == IF n < 0 THEN -n ELSE n

RECURSIVE BitsOf(_)
BitsOf(n) == IF n = 0 THEN 0 ELSE 1 + BitsOf(n \div 2)

\* int.bit_length(): bits needed for the absolute value, 0 for 0
bit_length(n) == BitsOf(Abs(n))

RECURSIVE Pow2(_)
Pow2(k) == IF k <= 0 THEN 1 ELSE 2 * Pow2(k - 1)

-----------------------------------------------------------------------------
(* ExposureIdInfo.__init__ *)

ExpIdTooWide_ge(expId, expBits) == bit_length(expId) >= expBits

ExpIdTooWide_lenient(expId, expBits) == bit_length(expId) > expBits + 1

ExpIdTooWide_orNoBits(expId, expBits) == bit_length(expId) > expBits \/ expBits < 1

\* line 66: if expId.bit_length() > expBits
ExpIdTooWide(expId, expBits) == bit_length(expId) > expBits

MaxBitsTooSmall_never(maxBits, expBits) == FALSE

MaxBitsTooSmall_off(maxBits, expBits) == maxBits < expBits - 1

\* line 74: if maxBits < expBits
MaxBitsTooSmall(maxBits, expBits) == maxBits < expBits

\* line 72-73: maxBits is coerced only when it is not None
CoerceMaxBits(maxBits) == IF maxBits = None THEN None ELSE PyInt(int(maxBits))

NoSelf == [expId |-> Unset, expBits |-> Unset, maxBits |-> Unset]

Construct ==
    /\ pc = "start"
    /\ LET expId == int(argExpId)
           expBits == int(argExpBits)
           maxBits == CoerceMaxBits(argMaxBits)
       IN IF ExpIdTooWide(expId, expBits)
          THEN /\ self' = NoSelf
               /\ instance' = FALSE
               /\ err' = "RuntimeError"
               /\ pc' = "raised"
          ELSE IF maxBits # None /\ MaxBitsTooSmall(maxBits.val, expBits)
          THEN /\ self' = [expId |-> PyInt(expId), expBits |-> PyInt(expBits), maxBits |-> Unset]
               /\ instance' = FALSE
               /\ err' = "RuntimeError"
               /\ pc' = "raised"
          ELSE /\ self' = [expId |-> PyInt(expId), expBits |-> PyInt(expBits), maxBits |-> maxBits]
               /\ instance' = TRUE
               /\ err' = "none"
               /\ pc' = "constructed"
    /\ UNCHANGED <<argExpId, argExpBits, argMaxBits, ret, calls, irafBBoxStr>>

-----------------------------------------------------------------------------
(* ExposureIdInfo.unusedBits *)

\* what IdFactory.computeReservedFromMaxBits may answer: it lives in lsst.afw.table
ReservedAnswers == -1..MaxReserved

ReservedArg_expId(obj) == obj.expId.val

\* line 84: the argument handed to IdFactory.computeReservedFromMaxBits
ReservedArg(obj) == obj.expBits.val

UnusedFromMax_reversed(maxBits, expBits) == expBits - maxBits

\* line 86: self.maxBits - self.expBits
UnusedFromMax(maxBits, expBits) == maxBits - expBits

\* line 82: if self.maxBits is None
UsesIdFactory(obj) == obj.maxBits = None

ReadUnusedBits ==
    /\ pc \in {"constructed", "read"}
    /\ instance
    /\ Len(calls) < MaxReads
    /\ IF UsesIdFactory(self)
       THEN \E r \in ReservedAnswers :
               /\ calls' = Append(calls, <<ReservedArg(self), r>>)
               /\ ret' = PyInt(r)
       ELSE /\ ret' = PyInt(UnusedFromMax(self.maxBits.val, self.expBits.val))
            /\ calls' = calls
    /\ err' = "none"
    /\ pc' = "read"
    /\ UNCHANGED <<argExpId, argExpBits, argMaxBits, self, instance, irafBBoxStr>>

-----------------------------------------------------------------------------
(* bboxFromIraf *)

Digits == {"0", "1", "2", "3", "4", "5", "6", "7", "8", "9"}

DigitVal(c) ==
    CASE c = "0" -> 0 [] c = "1" -> 1 [] c = "2" -> 2 [] c = "3" -> 3 [] c = "4" -> 4
      [] c = "5" -> 5 [] c = "6" -> 6 [] c = "7" -> 7 [] c = "8" -> 8 [] c = "9" -> 9

\* the character class [-\d] of the pattern
IsFieldChar(c) == c = "-" \/ c \in Digits

CharAt(s, i) == IF i \in 1..Len(s) THEN s[i] ELSE "EOS"

\* where the greedy run [-\d]+ that starts at position i stops (first position not in the class)
RECURSIVE RunEnd(_, _)
RunEnd(s, i) == IF i <= Len(s) /\ IsFieldChar(s[i]) THEN RunEnd(s, i + 1) ELSE i

\* "$" without re.MULTILINE: the end of the string, or just before a newline that ends it
AtDollar(s, i) == i = Len(s) + 1 \/ (i = Len(s) /\ s[i] = "\n")

NoMatch == <<>>

\* line 68: re.search(r"^\[([-\d]+):([-\d]+),([-\d]+):([-\d]+)\]$", s); the four groups, or
\* NoMatch. No separator is in the class, so the greedy runs are the only way to match.
reSearch(s) ==
    LET e1 == RunEnd(s, 2)
        e2 == RunEnd(s, e1 + 1)
        e3 == RunEnd(s, e2 + 1)
        e4 == RunEnd(s, e3 + 1)
    IN IF /\ CharAt(s, 1) = "["
          /\ e1 > 2 /\ CharAt(s, e1) = ":"
          /\ e2 > e1 + 1 /\ CharAt(s, e2) = ","
          /\ e3 > e2 + 1 /\ CharAt(s, e3) = ":"
          /\ e4 > e3 + 1 /\ CharAt(s, e4) = "]"
          /\ AtDollar(s, e4 + 1)
       THEN <<SubSeq(s, 2, e1 - 1), SubSeq(s, e1 + 1, e2 - 1),
              SubSeq(s, e2 + 1, e3 - 1), SubSeq(s, e3 + 1, e4 - 1)>>
       ELSE NoMatch

RECURSIVE DigitsValue(_)
DigitsValue(ds) ==
    IF ds = <<>> THEN 0
    ELSE 10 * DigitsValue(SubSeq(ds, 1, Len(ds) - 1)) + DigitVal(ds[Len(ds)])

AllDigits(ds) == ds # <<>> /\ \A i \in 1..Len(ds) : ds[i] \in Digits

\* int(str) on a string of the class [-\d]: an optional sign and at least one digit,
\* anything else is a ValueError
intOfStr(g) ==
    IF AllDigits(g) THEN [ok |-> TRUE, val |-> DigitsValue(g)]
    ELSE IF g # <<>> /\ g[1] = "-" /\ AllDigits(Tail(g))
         THEN [ok |-> TRUE, val |-> -DigitsValue(Tail(g))]
    ELSE [ok |-> FALSE]

\* afwGeom.PointI(x, y)
PointI(x, y) == <<x, y>>

\* afwGeom.BoxI(p, q): the box built from the two corner points handed to it
BoxI(p, q) == [kind |-> "BoxI", corner1 |-> p, corner2 |-> q]

BoxOf_noShift(x0, x1, y0, y1) == BoxI(PointI(x0, y0), PointI(x1, y1))

\* line 73
BoxOf(x0, x1, y0, y1) == BoxI(PointI(x0 - 1, y0 - 1), PointI(x1 - 1, y1 - 1))

bboxFromIraf ==
    /\ pc = "start"
    /\ LET mat == reSearch(irafBBoxStr)
       IN IF mat = NoMatch
          THEN /\ err' = "RuntimeError"
               /\ ret' = None
          ELSE LET x0 == intOfStr(mat[1])
                   x1 == intOfStr(mat[2])
                   y0 == intOfStr(mat[3])
                   y1 == intOfStr(mat[4])
               IN IF x0.ok /\ x1.ok /\ y0.ok /\ y1.ok
                  THEN /\ err' = "none"
                       /\ ret' = BoxOf(x0.val, x1.val, y0.val, y1.val)
                  ELSE /\ err' = "ValueError"
                       /\ ret' = None
    /\ pc' = "parsed"
    /\ UNCHANGED <<argExpId, argExpBits, argMaxBits, self, instance, calls, irafBBoxStr>>

-----------------------------------------------------------------------------
(* Arguments *)

\* all strings over the characters cs of length 0..n
RECURSIVE StringsOver(_, _)
StringsOver(cs, n) ==
    IF n = 0 THEN {<<>>}
    ELSE LET shorter == StringsOver(cs, n - 1)
         IN shorter \cup {Append(w, c) : w \in shorter, c \in cs}

Fields(d) == StringsOver({"-", d}, MaxFieldLen)

\* what surrounds and separates the four fields: <<open, sep1, sep2, sep3, close>>
Frames ==
    { <<<<"[">>, <<":">>, <<",">>, <<":">>, <<"]">>>>,
      <<<<>>, <<":">>, <<",">>, <<":">>, <<"]">>>>,
      <<<<"[">>, <<":">>, <<",">>, <<":">>, <<>>>>,
      <<<<"[">>, <<",">>, <<":">>, <<",">>, <<"]">>>>,
      <<<<" ", "[">>, <<":">>, <<",">>, <<":">>, <<"]">>>>,
      <<<<"[">>, <<":">>, <<",">>, <<":">>, <<"]", " ">>>>,
      <<<<"[">>, <<":">>, <<",">>, <<":">>, <<"]", "\n">>>> }

IrafStrings ==
    { fr[1] \o f1 \o fr[2] \o f2 \o fr[3] \o f3 \o fr[4] \o f4 \o fr[5] :
        fr \in Frames, f1 \in Fields("1"), f2 \in Fields("2"),
        f3 \in Fields("3"), f4 \in Fields("0") }

ExpIdArgs == PyNumbers(-MaxId, MaxId)
ExpBitsArgs == PyNumbers(-1, MaxBits)
MaxBitsArgs == {None} \cup PyNumbers(-1, MaxBits + 1)

Init ==
    /\ pc = "start"
    /\ argExpId \in ExpIdArgs
    /\ argExpBits \in ExpBitsArgs
    /\ argMaxBits \in MaxBitsArgs
    /\ self = NoSelf
    /\ instance = FALSE
    /\ err = "none"
    /\ ret = None
    /\ calls = <<>>
    /\ irafBBoxStr = <<>>

Next == Construct \/ ReadUnusedBits

Spec == Init /\ [][Next]_vars

\* a caller of bboxFromIraf; the ExposureIdInfo arguments stay at their defaults
InitBBox ==
    /\ pc = "start"
    /\ irafBBoxStr \in IrafStrings
    /\ argExpId = PyInt(0)
    /\ argExpBits = PyInt(1)
    /\ argMaxBits = None
    /\ self = NoSelf
    /\ instance = FALSE
    /\ err = "none"
    /\ ret = None
    /\ calls = <<>>

NextBBox == bboxFromIraf

SpecBBox == InitBBox /\ [][NextBBox]_vars

-----------------------------------------------------------------------------
(* Properties of ExposureIdInfo, checked under Spec *)

Called == pc # "start"

IntArgs == IsInt(argExpId) /\ IsInt(argExpBits) /\ (argMaxBits = None \/ IsInt(argMaxBits))

\* C1: a non-negative int expId that fits in a positive int expBits (expId < 2^expBits),
\* with maxBits omitted, is accepted, and the instance holds expId, expBits and maxBits = None
\* exactly as given.
C1_ConstructRoundTrips ==
    ( /\ Called
      /\ IntArgs /\ argMaxBits = None
      /\ argExpId.val >= 0 /\ argExpBits.val > 0
      /\ argExpId.val < Pow2(argExpBits.val) )
    => /\ instance
       /\ err = "none"
       /\ self = [expId |-> argExpId, expBits |-> argExpBits, maxBits |-> None]

C1_Witness ==
    /\ pc = "constructed" /\ instance
    /\ argExpId = PyInt(5) /\ argExpBits = PyInt(4) /\ argMaxBits = None
    /\ self = [expId |-> PyInt(5), expBits |-> PyInt(4), maxBits |-> None]

\* C2: when the bit length of an int expId exceeds the int expBits, construction raises
\* RuntimeError and yields no instance, whatever maxBits is (omitted included).
C2_TooWideRaises ==
    ( /\ Called
      /\ IsInt(argExpId) /\ IsInt(argExpBits)
      /\ bit_length(argExpId.val) > argExpBits.val )
    => /\ ~instance
       /\ err = "RuntimeError"
       /\ pc = "raised"

C2_Witness ==
    /\ pc = "raised" /\ ~instance /\ err = "RuntimeError"
    /\ argExpId = PyInt(16) /\ argExpBits = PyInt(4) /\ argMaxBits = PyInt(5)

\* C3: when an int maxBits is given that is smaller than the int expBits, construction raises
\* RuntimeError and yields no instance, whatever expId is (fitting in expBits or not).
C3_MaxBitsBelowExpBitsRaises ==
    ( /\ Called
      /\ IsInt(argExpBits) /\ argMaxBits # None /\ IsInt(argMaxBits)
      /\ argMaxBits.val < argExpBits.val )
    => /\ ~instance
       /\ err = "RuntimeError"
       /\ pc = "raised"

C3_Witness ==
    /\ pc = "raised" /\ ~instance /\ err = "RuntimeError"
    /\ argExpId = PyInt(0) /\ argExpBits = PyInt(4) /\ argMaxBits = PyInt(2)
    /\ self.expBits = PyInt(4)

\* C4: reading unusedBits of an instance built with maxBits given returns maxBits - expBits
\* (for int arguments: of the arguments themselves) and makes no call to
\* IdFactory.computeReservedFromMaxBits.
C4_UnusedBitsIsDifference ==
    (pc = "read" /\ self.maxBits # None)
    => /\ ret = PyInt(self.maxBits.val - self.expBits.val)
       /\ calls = <<>>
       /\ IntArgs => ret = PyInt(argMaxBits.val - argExpBits.val)

C4_Witness ==
    /\ pc = "read"
    /\ argExpId = PyInt(0) /\ argExpBits = PyInt(2) /\ argMaxBits = PyInt(5)
    /\ ret = PyInt(3)
    /\ calls = <<>>

\* C5: reading unusedBits of an instance built without maxBits returns what
\* IdFactory.computeReservedFromMaxBits answered to the call made for this read, every such
\* call was made with the instance's expBits, and any answer of the capability is passed on.
C5_UnusedBitsIsDelegated ==
    (pc = "read" /\ self.maxBits = None)
    => /\ calls # <<>>
       /\ ret = PyInt(calls[Len(calls)][2])
       /\ \A i \in 1..Len(calls) : calls[i][1] = self.expBits.val
       /\ IntArgs => calls[Len(calls)][1] = argExpBits.val

C5_Witness ==
    /\ pc = "read"
    /\ argExpId = PyInt(5) /\ argExpBits = PyInt(4) /\ argMaxBits = None
    /\ calls = <<<<4, 0>>, <<4, 2>>>>
    /\ ret = PyInt(2)

\* C6: every constructed instance holds 0 <= expId < 2^expBits.
C6_ExpIdNonNegativeAndFits ==
    instance => /\ 0 <= self.expId.val
                /\ self.expId.val < Pow2(self.expBits.val)

\* C7: every constructed instance with maxBits present has maxBits >= expBits, and a read of
\* its unusedBits is never negative.
C7_MaxBitsCoversExpBits ==
    (instance /\ self.maxBits # None)
    => /\ self.maxBits.val >= self.expBits.val
       /\ pc = "read" => ret.val >= 0

C7_Witness ==
    /\ pc = "read" /\ instance
    /\ self.expBits = PyInt(2) /\ self.maxBits = PyInt(2)
    /\ ret = PyInt(0)

\* C8: for int arguments construction fails exactly when bit_length(expId) > expBits or
\* maxBits is given and is less than expBits; nothing requires expBits >= 1, and every
\* failure is a RuntimeError.
C8_FailsExactlyOnTwoConditions ==
    (Called /\ IntArgs)
    => /\ ~instance <=> \/ bit_length(argExpId.val) > argExpBits.val
                        \/ (argMaxBits # None /\ argMaxBits.val < argExpBits.val)
       /\ ~instance <=> err = "RuntimeError"

C8_Witness ==
    /\ pc = "constructed" /\ instance
    /\ argExpId = PyInt(0) /\ argExpBits = PyInt(0) /\ argMaxBits \in {None, PyInt(0)}
    /\ self.expBits = PyInt(0)

-----------------------------------------------------------------------------
(* Properties of bboxFromIraf, checked under SpecBBox *)

\* an optional "-" followed by at least one decimal digit
IsDecimalInteger(f) ==
    LET ds == IF f # <<>> /\ f[1] = "-" THEN Tail(f) ELSE f
    IN ds # <<>> /\ \A i \in 1..Len(ds) : ds[i] \in Digits

RECURSIVE DecimalFrom(_, _, _)
DecimalFrom(f, i, acc) ==
    IF i > Len(f) THEN acc ELSE DecimalFrom(f, i + 1, 10 * acc + DigitVal(f[i]))

DecimalOf(f) == IF f[1] = "-" THEN -DecimalFrom(f, 2, 0) ELSE DecimalFrom(f, 1, 0)

\* the ways to read s as "[" x0 ":" x1 "," y0 ":" y1 "]" with four decimal integers
IrafReadings(s) ==
    IF Len(s) < 2 \/ s[1] # "[" \/ s[Len(s)] # "]" THEN {}
    ELSE LET n == Len(s)
             cand == UNION { UNION { { <<SubSeq(s, 2, a - 1), SubSeq(s, a + 1, b - 1),
                                         SubSeq(s, b + 1, c - 1), SubSeq(s, c + 1, n - 1)>> :
                                       c \in {k \in (b + 1)..n : s[k] = ":"} } :
                                     b \in {k \in (a + 1)..n : s[k] = ","} } :
                             a \in {k \in 2..n : s[k] = ":"} }
         IN {r \in cand : \A i \in 1..4 : IsDecimalInteger(r[i])}

\* C9: for a string "[x0:x1,y0:y1]" of four decimal integers bboxFromIraf returns the box
\* with corners (x0 - 1, y0 - 1) and (x1 - 1, y1 - 1).
C9_BoxIsShiftedByOne ==
    pc = "parsed"
    => \A r \in IrafReadings(irafBBoxStr) :
          /\ err = "none"
          /\ ret = [kind |-> "BoxI",
                    corner1 |-> <<DecimalOf(r[1]) - 1, DecimalOf(r[3]) - 1>>,
                    corner2 |-> <<DecimalOf(r[2]) - 1, DecimalOf(r[4]) - 1>>]

C9_Witness ==
    /\ pc = "parsed"
    /\ irafBBoxStr = <<"[", "-", "1", ":", "2", "2", ",", "3", ":", "0", "]">>
    /\ ret = [kind |-> "BoxI", corner1 |-> <<-2, 2>>, corner2 |-> <<21, -1>>]

\* C10: for a string that is not "[int:int,int:int]" bboxFromIraf raises RuntimeError and
\* returns no box.
C10_MalformedRaisesRuntimeError ==
    (pc = "parsed" /\ IrafReadings(irafBBoxStr) = {})
    => /\ err = "RuntimeError"
       /\ ret = None

====
